---- MODULE Spec2Model ----
(***************************************************************************)
(* text2voicevox (src/main.go): a command-line pipeline that resolves a    *)
(* speaker name against the engine's catalog, reads a text file, asks the  *)
(* engine for an audio query, overrides its scalar controls from the       *)
(* flags, asks the engine to synthesize it and writes the bytes to a file. *)
(*                                                                         *)
(* The process is modelled as one sequential state machine: pc is the      *)
(* position of main(), every HTTP exchange and file operation is appended  *)
(* to a history (calls, fileOps), and the engine and the file system are   *)
(* the environment: each step draws the response it receives from a        *)
(* bounded set.  float64 values are modelled by their decimal text; the    *)
(* code only copies and compares them.                                      *)
(***************************************************************************)
EXTENDS Integers, Sequences, FiniteSets, TLC

VARIABLES cfg, pc, exitCode, speakerID, text, query, queryReceived, wavData,
          outFile, calls, fileOps, stdout, stderr

vars == <<cfg, pc, exitCode, speakerID, text, query, queryReceived, wavData,
          outFile, calls, fileOps, stdout, stderr>>

(* ------------------------------ bounds --------------------------------- *)
\* longest speaker catalog the engine returns
MaxSpeakers == 2
\* longest style list of one speaker
MaxStyles == 2
\* longest accent-phrase array of a query
MaxAccent == 1
\* longest audio payload, in bytes
MaxWav == 2

SeqsUpTo(S, n) == UNION {[1..k -> S] : k \in 0..n}

(* --------------------------- program constants ------------------------- *)
StatusOK == 200
DefaultPort == 50021
DefaultActor == "Zundamon"
Sentinel == "-1.0"
NaN == "NaN"

\* float64 inequality (a != b): NaN differs from everything, itself included
FloatNe(a, b) == a = NaN \/ b = NaN \/ a # b

(* ------------------------------ data model ----------------------------- *)
SpeakerNames == {"Zundamon", "zundamon"}
ActorNames == {DefaultActor, "Metan"}
StyleSet == {[Name |-> "Normal", ID |-> 0], [Name |-> "Happy", ID |-> 1]}
\* Speaker: SpeakerUUID and Version are decoded but never read by the program
SpeakerSet == [Name : SpeakerNames, Styles : SeqsUpTo(StyleSet, MaxStyles)]
Catalogs == SeqsUpTo(SpeakerSet, MaxSpeakers)

NoBody == [kind |-> "none"]

\* an error value of the program: its kind, and the HTTP status and response
\* body its message carries (0 and NoBody when the message carries none)
Err(kind, status, body) == [kind |-> kind, status |-> status, body |-> body]
NoError == Err("none", 0, NoBody)

(* ------------------------------ the engine ----------------------------- *)
\* What one HTTP exchange can yield: no connection, or a status and a body.
\* A body is malformed text, the JSON value null, a JSON array of speakers, a
\* JSON query object, raw bytes, or a stream that breaks while being read.
ConnRefused == [conn |-> FALSE, status |-> 0, body |-> NoBody]
Http(status, body) == [conn |-> TRUE, status |-> status, body |-> body]
\* statuses other than 200; the code treats 204 like any of them
ErrorStatuses == {204, 404, 500}
Malformed == [kind |-> "malformed"]
JsonNull == [kind |-> "null"]
Broken == [kind |-> "broken"]
SpeakersBody(cat) == [kind |-> "speakers", val |-> cat]
QueryBody(q) == [kind |-> "query", val |-> q]
BytesBody(b) == [kind |-> "bytes", val |-> b]

Responses(okBodies, errBodies) ==
    {ConnRefused} \cup {Http(StatusOK, b) : b \in okBodies}
                  \cup {Http(s, b) : s \in ErrorStatuses, b \in errBodies}

(* ------------------------- Client.findSpeakerID ------------------------ *)
\* json.NewDecoder(resp.Body).Decode(&speakers): null decodes to a nil slice
DecodeSpeakers(body) ==
    CASE body.kind = "speakers" -> [err |-> NoError, speakers |-> body.val]
      [] body.kind = "null" -> [err |-> NoError, speakers |-> <<>>]
      [] OTHER -> [err |-> Err("DecodeError", 0, NoBody), speakers |-> <<>>]

\* findSpeakerID taking the last style of the entry instead of the first
RECURSIVE scanSpeakersLastStyle(_, _, _)
scanSpeakersLastStyle(speakers, name, i) ==
    IF i > Len(speakers)
    THEN [id |-> 0, err |-> Err("SpeakerNotFound", 0, NoBody), out |-> <<>>]
    ELSE IF speakers[i].Name = name /\ Len(speakers[i].Styles) > 0
         THEN LET st == speakers[i].Styles[Len(speakers[i].Styles)] IN
              [id |-> st.ID, err |-> NoError,
               out |-> << <<"using", speakers[i].Name, st.Name, st.ID>> >>]
         ELSE scanSpeakersLastStyle(speakers, name, i + 1)

\* findSpeakerID comparing names without regard to case
Fold(name) == IF name = "Zundamon" THEN "zundamon" ELSE name
RECURSIVE scanSpeakersFold(_, _, _)
scanSpeakersFold(speakers, name, i) ==
    IF i > Len(speakers)
    THEN [id |-> 0, err |-> Err("SpeakerNotFound", 0, NoBody), out |-> <<>>]
    ELSE IF Fold(speakers[i].Name) = Fold(name) /\ Len(speakers[i].Styles) > 0
         THEN [id |-> speakers[i].Styles[1].ID, err |-> NoError,
               out |-> << <<"using", speakers[i].Name,
                            speakers[i].Styles[1].Name, speakers[i].Styles[1].ID>> >>]
         ELSE scanSpeakersFold(speakers, name, i + 1)

\* findSpeakerID returning the zero identifier for a named entry without styles
RECURSIVE scanSpeakersEmptyOK(_, _, _)
scanSpeakersEmptyOK(speakers, name, i) ==
    IF i > Len(speakers)
    THEN [id |-> 0, err |-> Err("SpeakerNotFound", 0, NoBody), out |-> <<>>]
    ELSE IF speakers[i].Name = name
         THEN IF Len(speakers[i].Styles) > 0
              THEN [id |-> speakers[i].Styles[1].ID, err |-> NoError,
                    out |-> << <<"using", speakers[i].Name,
                                 speakers[i].Styles[1].Name, speakers[i].Styles[1].ID>> >>]
              ELSE [id |-> 0, err |-> NoError, out |-> <<>>]
         ELSE scanSpeakersEmptyOK(speakers, name, i + 1)

\* the loop of findSpeakerID from entry i on
RECURSIVE scanSpeakers(_, _, _)
scanSpeakers(speakers, name, i) ==
    IF i > Len(speakers)
    THEN [id |-> 0, err |-> Err("SpeakerNotFound", 0, NoBody), out |-> <<>>]
    ELSE IF speakers[i].Name = name /\ Len(speakers[i].Styles) > 0
         THEN [id |-> speakers[i].Styles[1].ID, err |-> NoError,
               out |-> << <<"using", speakers[i].Name,
                            speakers[i].Styles[1].Name, speakers[i].Styles[1].ID>> >>]
         ELSE scanSpeakers(speakers, name, i + 1)

findSpeakerID(name, resp) ==
    IF ~resp.conn
    THEN [id |-> 0, err |-> Err("ConnectionError", 0, NoBody), out |-> <<>>]
    ELSE IF resp.status # StatusOK
    THEN [id |-> 0, err |-> Err("ProtocolError", resp.status, NoBody), out |-> <<>>]
    ELSE LET d == DecodeSpeakers(resp.body) IN
         IF d.err # NoError
         THEN [id |-> 0, err |-> d.err, out |-> <<>>]
         ELSE scanSpeakers(d.speakers, name, 1)

(* ------------------------- Client.listSpeakers ------------------------- *)
\* listSpeakers printing only the first style of each speaker
printStylesFirstOnly(styles, j) ==
    IF j > Len(styles) THEN <<>>
    ELSE << <<"style", styles[j].Name, styles[j].ID>> >>

RECURSIVE printStyles(_, _)
printStyles(styles, j) ==
    IF j > Len(styles) THEN <<>>
    ELSE << <<"style", styles[j].Name, styles[j].ID>> >> \o printStyles(styles, j + 1)

RECURSIVE printSpeakers(_, _)
printSpeakers(speakers, i) ==
    IF i > Len(speakers) THEN <<>>
    ELSE << <<"speaker", speakers[i].Name>> >> \o printStyles(speakers[i].Styles, 1)
         \o printSpeakers(speakers, i + 1)

listSpeakers(resp) ==
    IF ~resp.conn
    THEN [err |-> Err("ConnectionError", 0, NoBody), out |-> <<>>]
    ELSE IF resp.status # StatusOK
    THEN [err |-> Err("ProtocolError", resp.status, NoBody), out |-> <<>>]
    ELSE LET d == DecodeSpeakers(resp.body) IN
         IF d.err # NoError
         THEN [err |-> d.err, out |-> <<>>]
         ELSE [err |-> NoError,
               out |-> << <<"header">> >> \o printSpeakers(d.speakers, 1)
                       \o << <<"footer">>, <<"hint">> >>]

(* ------------------------------ AudioQuery ----------------------------- *)
\* The JSON object of /audio_query as it is on the wire: kana may be null,
\* accent_phrases may be null, and the object may hold keys (extra) that the
\* AudioQuery struct does not declare.
NullString == [null |-> TRUE, s |-> ""]
JsonString(s) == [null |-> FALSE, s |-> s]
NilSlice == [null |-> TRUE, items |-> <<>>]
Slice(items) == [null |-> FALSE, items |-> items]

\* the zero value of the AudioQuery struct
ZeroQuery ==
    [AccentPhrases |-> NilSlice, SpeedScale |-> "0.0", PitchScale |-> "0.0",
     IntonationScale |-> "0.0", VolumeScale |-> "0.0", PrePhonemeLength |-> "0.0",
     PostPhonemeLength |-> "0.0", OutputSamplingRate |-> 0, OutputStereo |-> FALSE,
     Kana |-> ""]

\* json.Decoder.Decode into an AudioQuery: declared keys are copied, a null
\* kana leaves the zero string, undeclared keys are dropped, and the JSON value
\* null leaves the zero struct; anything else is a decode error
DecodeQuery(body) ==
    CASE body.kind = "query" ->
           [err |-> NoError,
            query |-> [AccentPhrases |-> body.val.accent_phrases,
                       SpeedScale |-> body.val.speedScale,
                       PitchScale |-> body.val.pitchScale,
                       IntonationScale |-> body.val.intonationScale,
                       VolumeScale |-> body.val.volumeScale,
                       PrePhonemeLength |-> body.val.prePhonemeLength,
                       PostPhonemeLength |-> body.val.postPhonemeLength,
                       OutputSamplingRate |-> body.val.outputSamplingRate,
                       OutputStereo |-> body.val.outputStereo,
                       Kana |-> IF body.val.kana.null THEN "" ELSE body.val.kana.s]]
      [] body.kind = "null" -> [err |-> NoError, query |-> ZeroQuery]
      [] OTHER -> [err |-> Err("DecodeError", 0, NoBody), query |-> ZeroQuery]

\* json.Marshal(query): fails on a float that JSON cannot express
Marshalable(q) ==
    NaN \notin {q.SpeedScale, q.PitchScale, q.IntonationScale, q.VolumeScale,
                q.PrePhonemeLength, q.PostPhonemeLength}

EncodeQuery(q) ==
    [accent_phrases |-> q.AccentPhrases, speedScale |-> q.SpeedScale,
     pitchScale |-> q.PitchScale, intonationScale |-> q.IntonationScale,
     volumeScale |-> q.VolumeScale, prePhonemeLength |-> q.PrePhonemeLength,
     postPhonemeLength |-> q.PostPhonemeLength,
     outputSamplingRate |-> q.OutputSamplingRate, outputStereo |-> q.OutputStereo,
     kana |-> JsonString(q.Kana), extra |-> {}]

(* ----------------------- Client.createAudioQuery ----------------------- *)
\* createAudioQuery without the status check
createAudioQueryNoStatus(resp) ==
    IF ~resp.conn
    THEN [query |-> ZeroQuery, err |-> Err("ConnectionError", 0, NoBody)]
    ELSE LET d == DecodeQuery(resp.body) IN
         IF d.err # NoError
         THEN [query |-> ZeroQuery, err |-> d.err]
         ELSE [query |-> d.query, err |-> NoError]

\* (http.NewRequest cannot fail for the fixed method and a localhost URL)
createAudioQuery(resp) ==
    IF ~resp.conn
    THEN [query |-> ZeroQuery, err |-> Err("ConnectionError", 0, NoBody)]
    ELSE IF resp.status # StatusOK
    THEN [query |-> ZeroQuery, err |-> Err("ProtocolError", resp.status, resp.body)]
    ELSE LET d == DecodeQuery(resp.body) IN
         IF d.err # NoError
         THEN [query |-> ZeroQuery, err |-> d.err]
         ELSE [query |-> d.query, err |-> NoError]

(* --------------------------- Client.synthesis -------------------------- *)
\* the part of synthesis after a request was sent
synthesis(resp) ==
    IF ~resp.conn
    THEN [wav |-> <<>>, err |-> Err("ConnectionError", 0, NoBody)]
    ELSE IF resp.status # StatusOK
    THEN [wav |-> <<>>, err |-> Err("ProtocolError", resp.status, resp.body)]
    ELSE IF resp.body.kind = "broken"
    THEN [wav |-> <<>>, err |-> Err("ReadError", 0, NoBody)]
    ELSE [wav |-> resp.body.val, err |-> NoError]

(* ------------------------- main: the overrides ------------------------- *)
\* the overrides without the -1.0 convention
ApplyOverridesNoSentinel(q, c) ==
    [q EXCEPT !.SpeedScale = c.speed, !.PitchScale = c.pitch,
              !.IntonationScale = c.intonation, !.VolumeScale = c.volume,
              !.PrePhonemeLength = c.prePhoneme, !.PostPhonemeLength = c.postPhoneme]

\* the overrides building a new query that keeps only the accent phrases
ApplyOverridesFresh(q, c) ==
    [ZeroQuery EXCEPT !.AccentPhrases = q.AccentPhrases,
                      !.SpeedScale = c.speed, !.PitchScale = c.pitch,
                      !.IntonationScale = c.intonation, !.VolumeScale = c.volume,
                      !.PrePhonemeLength = IF FloatNe(c.prePhoneme, Sentinel)
                                           THEN c.prePhoneme ELSE q.PrePhonemeLength,
                      !.PostPhonemeLength = IF FloatNe(c.postPhoneme, Sentinel)
                                            THEN c.postPhoneme ELSE q.PostPhonemeLength]

ApplyOverrides(q, c) ==
    LET q1 == [q EXCEPT !.SpeedScale = c.speed, !.PitchScale = c.pitch,
                        !.IntonationScale = c.intonation, !.VolumeScale = c.volume]
        q2 == IF FloatNe(c.prePhoneme, Sentinel)
              THEN [q1 EXCEPT !.PrePhonemeLength = c.prePhoneme] ELSE q1
    IN IF FloatNe(c.postPhoneme, Sentinel)
       THEN [q2 EXCEPT !.PostPhonemeLength = c.postPhoneme] ELSE q2

(* --------------------------- the file system --------------------------- *)
Bytes == {82, 73}
WavSet == SeqsUpTo(Bytes, MaxWav)
Texts == {"", "konnichiwa"}
\* os.ReadFile: the whole content, or an error
ReadResults == {[ok |-> TRUE, data |-> t] : t \in Texts} \cup {[ok |-> FALSE, data |-> ""]}
OneReadResult == {[ok |-> TRUE, data |-> "konnichiwa"]}
Absent == [exists |-> FALSE, data |-> <<>>]
File(data) == [exists |-> TRUE, data |-> data]
OldFile == File(<<79, 76, 68>>)

\* os.WriteFile(name, data, 0644): the file is opened with O_CREATE|O_TRUNC and
\* data is written; n is the number of bytes written before a failure
\* ("open": the open itself failed and the file is as it was)
WriteOutcomes(data) ==
    {[kind |-> "ok", n |-> Len(data)], [kind |-> "open", n |-> 0]}
    \cup {[kind |-> "short", n |-> n] : n \in 0..(Len(data) - 1)}
\* os.WriteFile appending to the file instead of truncating it
WriteFileAppend(old, data, outcome) ==
    IF outcome.kind = "ok" THEN [err |-> NoError, file |-> File(old.data \o data)]
    ELSE IF outcome.kind = "open" THEN [err |-> Err("OutputError", 0, NoBody), file |-> old]
    ELSE [err |-> Err("OutputError", 0, NoBody),
          file |-> File(old.data \o SubSeq(data, 1, outcome.n))]

WriteFile(old, data, outcome) ==
    IF outcome.kind = "ok" THEN [err |-> NoError, file |-> File(data)]
    ELSE IF outcome.kind = "open" THEN [err |-> Err("OutputError", 0, NoBody), file |-> old]
    ELSE [err |-> Err("OutputError", 0, NoBody), file |-> File(SubSeq(data, 1, outcome.n))]

(* ------------------------------- requests ------------------------------ *)
\* NewClient: every request goes to http://localhost:<port>
GetSpeakers(c) == [method |-> "GET", port |-> c.port, path |-> "/speakers"]
PostAudioQuery(c, t, id) ==
    [method |-> "POST", port |-> c.port, path |-> "/audio_query", text |-> t, speaker |-> id]
PostSynthesis(c, q, id) ==
    [method |-> "POST", port |-> c.port, path |-> "/synthesis", speaker |-> id,
     body |-> EncodeQuery(q)]
Exchange(req, resp) == [req |-> req, resp |-> resp]

(* --------------------------------- main -------------------------------- *)
\* os.Exit(1) after printing the error
Fail(e) ==
    /\ stderr' = Append(stderr, e)
    /\ exitCode' = 1
    /\ pc' = "exit"

\* flag.Parse has run: cfg holds the flag values, nothing else has happened
InitWith(flagSets, files) ==
    /\ cfg \in flagSets
    /\ outFile \in files
    /\ pc = "start"
    /\ exitCode = -1
    /\ speakerID = 0
    /\ text = ""
    /\ query = ZeroQuery
    /\ queryReceived = ZeroQuery
    /\ wavData = <<>>
    /\ calls = <<>>
    /\ fileOps = <<>>
    /\ stdout = <<>>
    /\ stderr = <<>>

\* the check of the required paths looking at -i only
MissingPathInputOnly(c) == c.inputFile = ""

\* main.go 224: a required path was not given
MissingPath(c) == "" \in {c.inputFile, c.outputFile}

\* main.go 216-222: -list-actors
ListActors(resps) ==
    /\ pc = "start"
    /\ cfg.showActors
    /\ \E resp \in resps :
         LET r == listSpeakers(resp) IN
         /\ calls' = Append(calls, Exchange(GetSpeakers(cfg), resp))
         /\ IF r.err # NoError
            THEN Fail(r.err) /\ UNCHANGED stdout
            ELSE /\ stdout' = stdout \o r.out
                 /\ exitCode' = 0
                 /\ pc' = "exit"
                 /\ UNCHANGED stderr
    /\ UNCHANGED <<cfg, speakerID, text, query, queryReceived, wavData, outFile, fileOps>>

\* main.go 224-227: a required path is missing
Usage ==
    /\ pc = "start"
    /\ ~cfg.showActors
    /\ MissingPath(cfg)
    /\ Fail(Err("Usage", 0, NoBody))
    /\ UNCHANGED <<cfg, speakerID, text, query, queryReceived, wavData, outFile,
                   calls, fileOps, stdout>>

\* main.go 229-233
FindSpeaker(resps) ==
    /\ pc = "start"
    /\ ~cfg.showActors
    /\ ~MissingPath(cfg)
    /\ \E resp \in resps :
         LET r == findSpeakerID(cfg.actorName, resp) IN
         /\ calls' = Append(calls, Exchange(GetSpeakers(cfg), resp))
         /\ stdout' = stdout \o r.out
         /\ IF r.err # NoError
            THEN Fail(r.err) /\ UNCHANGED speakerID
            ELSE /\ speakerID' = r.id
                 /\ pc' = "read"
                 /\ UNCHANGED <<exitCode, stderr>>
    /\ UNCHANGED <<cfg, text, query, queryReceived, wavData, outFile, fileOps>>

\* the read step going on with an empty text when the file cannot be read
ReadInputIgnoreErr(results) ==
    /\ pc = "read"
    /\ \E res \in results :
         /\ fileOps' = Append(fileOps, [op |-> "read", path |-> cfg.inputFile, ok |-> res.ok])
         /\ text' = res.data
         /\ pc' = "query"
         /\ UNCHANGED <<exitCode, stderr>>
    /\ UNCHANGED <<cfg, speakerID, query, queryReceived, wavData, outFile, calls, stdout>>

\* main.go 235-240
ReadInput(results) ==
    /\ pc = "read"
    /\ \E res \in results :
         /\ fileOps' = Append(fileOps, [op |-> "read", path |-> cfg.inputFile, ok |-> res.ok])
         /\ IF ~res.ok
            THEN Fail(Err("InputError", 0, NoBody)) /\ UNCHANGED text
            ELSE /\ text' = res.data
                 /\ pc' = "query"
                 /\ UNCHANGED <<exitCode, stderr>>
    /\ UNCHANGED <<cfg, speakerID, query, queryReceived, wavData, outFile, calls, stdout>>

\* main.go 242-247
CreateQuery(resps) ==
    /\ pc = "query"
    /\ \E resp \in resps :
         LET r == createAudioQuery(resp) IN
         /\ calls' = Append(calls, Exchange(PostAudioQuery(cfg, text, speakerID), resp))
         /\ IF r.err # NoError
            THEN Fail(r.err) /\ UNCHANGED <<query, queryReceived>>
            ELSE /\ query' = r.query
                 /\ queryReceived' = r.query
                 /\ pc' = "override"
                 /\ UNCHANGED <<exitCode, stderr>>
    /\ UNCHANGED <<cfg, speakerID, text, wavData, outFile, fileOps, stdout>>

\* main.go 249-260
Override ==
    /\ pc = "override"
    /\ query' = ApplyOverrides(query, cfg)
    /\ pc' = "synth"
    /\ UNCHANGED <<cfg, exitCode, speakerID, text, queryReceived, wavData, outFile,
                   calls, fileOps, stdout, stderr>>

\* main.go 263-270: json.Marshal fails before any request is made
Synthesis(resps) ==
    /\ pc = "synth"
    /\ IF ~Marshalable(query)
       THEN Fail(Err("EncodeError", 0, NoBody)) /\ UNCHANGED <<calls, wavData>>
       ELSE \E resp \in resps :
              LET r == synthesis(resp) IN
              /\ calls' = Append(calls, Exchange(PostSynthesis(cfg, query, speakerID), resp))
              /\ IF r.err # NoError
                 THEN Fail(r.err) /\ UNCHANGED wavData
                 ELSE /\ wavData' = r.wav
                      /\ pc' = "write"
                      /\ UNCHANGED <<exitCode, stderr>>
    /\ UNCHANGED <<cfg, speakerID, text, query, queryReceived, outFile, fileOps, stdout>>

\* main.go 272-280
WriteOutput ==
    /\ pc = "write"
    /\ \E outcome \in WriteOutcomes(wavData) :
         LET r == WriteFile(outFile, wavData, outcome) IN
         /\ fileOps' = Append(fileOps, [op |-> "write", path |-> cfg.outputFile,
                                      ok |-> r.err = NoError])
         /\ outFile' = r.file
         /\ IF r.err # NoError
            THEN Fail(r.err) /\ UNCHANGED stdout
            ELSE /\ stdout' = Append(stdout, <<"done", cfg.outputFile>>)
                 /\ exitCode' = 0
                 /\ pc' = "exit"
                 /\ UNCHANGED stderr
    /\ UNCHANGED <<cfg, speakerID, text, query, queryReceived, wavData, calls>>

(* ---------------------- inputs of the specifications ------------------- *)
\* the flag defaults (main.go 188-200)
DefaultFlags ==
    [inputFile |-> "", outputFile |-> "", actorName |-> DefaultActor, port |-> DefaultPort,
     showActors |-> FALSE, speed |-> "1.0", pitch |-> "0.0", intonation |-> "1.0",
     volume |-> "1.0", prePhoneme |-> Sentinel, postPhoneme |-> Sentinel]

AccentItems == {"phrase"}
AccentSet == {NilSlice} \cup {Slice(a) : a \in SeqsUpTo(AccentItems, MaxAccent)}
WireQueries(scales, silences, accents, rates, stereos, kanas, extras) ==
    [accent_phrases : accents, speedScale : scales, pitchScale : scales,
     intonationScale : scales, volumeScale : scales, prePhonemeLength : silences,
     postPhonemeLength : silences, outputSamplingRate : rates, outputStereo : stereos,
     kana : kanas, extra : extras]

SmallCatalogs == SeqsUpTo([Name : SpeakerNames, Styles : SeqsUpTo(StyleSet, 1)], 1)
ErrorBodies == {Malformed, SpeakersBody(<<[Name |-> DefaultActor, Styles |-> <<[Name |-> "Normal", ID |-> 1]>>]>>)}

\* the whole pipeline with every failure of every step, every input small
MainFlags ==
    {[DefaultFlags EXCEPT !.inputFile = i, !.outputFile = o, !.actorName = a,
                          !.showActors = l, !.speed = s, !.prePhoneme = p] :
        i \in {"", "in.txt"}, o \in {"", "out.wav"}, a \in ActorNames, l \in BOOLEAN,
        s \in {"1.0", NaN}, p \in {Sentinel, "0.5"}}
MainSpeakerResps ==
    Responses({Malformed, JsonNull, Broken} \cup {SpeakersBody(c) : c \in SmallCatalogs},
              ErrorBodies)
MainQueries ==
    WireQueries({"1.0"}, {"0.1"}, AccentSet, {24000}, {FALSE},
                {NullString, JsonString("konnichiwa")}, {{}, {"pauseLength"}})
MainQueryResps ==
    Responses({Malformed, JsonNull, Broken} \cup {QueryBody(q) : q \in MainQueries},
              {Malformed, QueryBody(CHOOSE q \in MainQueries : TRUE)})
MainSynthResps ==
    Responses({Broken} \cup {BytesBody(b) : b \in WavSet},
              {Malformed, BytesBody(<<82>>)})

Init == InitWith(MainFlags, {Absent, OldFile})
Next ==
    \/ ListActors(MainSpeakerResps)
    \/ Usage
    \/ FindSpeaker(MainSpeakerResps)
    \/ ReadInput(ReadResults)
    \/ CreateQuery(MainQueryResps)
    \/ Override
    \/ Synthesis(MainSynthResps)
    \/ WriteOutput
Spec == Init /\ [][Next]_vars

\* the pipeline over every catalog, the later steps with one answer each
AllSpeakerResps ==
    Responses({Malformed, JsonNull, Broken} \cup {SpeakersBody(c) : c \in Catalogs},
              ErrorBodies)
OneQuery ==
    [accent_phrases |-> Slice(<<"phrase">>), speedScale |-> "1.0", pitchScale |-> "0.0",
     intonationScale |-> "1.0", volumeScale |-> "1.0", prePhonemeLength |-> "0.1",
     postPhonemeLength |-> "0.1", outputSamplingRate |-> 24000, outputStereo |-> FALSE,
     kana |-> JsonString("konnichiwa"), extra |-> {}]
OneQueryResp == {Http(StatusOK, QueryBody(OneQuery))}
OneSynthResp == {Http(StatusOK, BytesBody(<<82, 73>>))}

ResolveFlags ==
    {[DefaultFlags EXCEPT !.inputFile = i, !.outputFile = o, !.actorName = a,
                          !.showActors = l] :
        i \in {"", "in.txt"}, o \in {"", "out.wav"}, a \in ActorNames, l \in BOOLEAN}
InitResolve == InitWith(ResolveFlags, {Absent})
NextResolve ==
    \/ ListActors(AllSpeakerResps)
    \/ Usage
    \/ FindSpeaker(AllSpeakerResps)
    \/ ReadInput(OneReadResult)
    \/ CreateQuery(OneQueryResp)
    \/ Override
    \/ Synthesis(OneSynthResp)
    \/ WriteOutput
SpecResolve == InitResolve /\ [][NextResolve]_vars

\* the pipeline over every flag value and every query, one catalog
OneSpeakerResp ==
    {Http(StatusOK, SpeakersBody(<<[Name |-> DefaultActor,
                                    Styles |-> <<[Name |-> "Normal", ID |-> 1]>>]>>))}
OverrideQueries ==
    WireQueries({"0.0", "1.0"}, {"0.1", Sentinel}, {Slice(<<"phrase">>)}, {24000}, {FALSE},
                {JsonString("konnichiwa")}, {{}})
    \cup WireQueries({"1.0"}, {"0.1"}, AccentSet, {24000, 48000}, BOOLEAN,
                     {NullString, JsonString(""), JsonString("konnichiwa")},
                     {{}, {"pauseLength"}})
OverrideQueryResps == {Http(StatusOK, b) : b \in {JsonNull} \cup {QueryBody(q) : q \in OverrideQueries}}

OverrideFlags ==
    {[DefaultFlags EXCEPT !.inputFile = "in.txt", !.outputFile = "out.wav",
                          !.speed = s, !.pitch = p, !.intonation = i, !.volume = v,
                          !.prePhoneme = a, !.postPhoneme = b] :
        s \in {DefaultFlags.speed, "1.5"}, p \in {DefaultFlags.pitch, "0.1"},
        i \in {DefaultFlags.intonation, "0.0"}, v \in {DefaultFlags.volume, "0.0"},
        a \in {Sentinel, "0.5", NaN}, b \in {Sentinel, "0.5", NaN}}
InitOverride == InitWith(OverrideFlags, {Absent})
NextOverride ==
    \/ FindSpeaker(OneSpeakerResp)
    \/ ReadInput(OneReadResult)
    \/ CreateQuery(OverrideQueryResps)
    \/ Override
    \/ Synthesis(OneSynthResp)
    \/ WriteOutput
SpecOverride == InitOverride /\ [][NextOverride]_vars

(* ============================ properties ================================ *)
Min(S) == CHOOSE x \in S : \A y \in S : x <= y
SynthesisMode == ~cfg.showActors
\* the first exchange of a synthesis run is the catalog fetch of the resolve step
Resolved == SynthesisMode /\ Len(calls) >= 1
\* the catalog a successful fetch delivered
GotCatalog(k) ==
    /\ calls[k].resp.conn
    /\ calls[k].resp.status = 200
    /\ calls[k].resp.body.kind \in {"speakers", "null"}
CatalogOf(k) ==
    IF calls[k].resp.body.kind = "null" THEN <<>> ELSE calls[k].resp.body.val
\* the run ended in the resolve step
ResolveFailed == pc = "exit" /\ exitCode = 1 /\ Len(calls) = 1 /\ fileOps = <<>>
ResolvePassed == pc = "read" \/ Len(fileOps) >= 1
Named(cat, n) == {i \in DOMAIN cat : cat[i].Name = n}
Usable(cat, n) == {i \in Named(cat, n) : cat[i].Styles # <<>>}
SynthesisCalls == {k \in DOMAIN calls : calls[k].req.path = "/synthesis"}

\* C1: whenever the catalog holds an entry named as the requested actor with a
\* non-empty style list, the resolve step succeeds with the identifier of the
\* first style of the earliest such entry.
C1_ResolveFirstStyle ==
    (Resolved /\ GotCatalog(1)) =>
        LET cat == CatalogOf(1)
            Q == Usable(cat, cfg.actorName)
        IN Q # {} =>
             /\ ResolvePassed
             /\ ~ResolveFailed
             /\ speakerID = cat[Min(Q)].Styles[1].ID
             /\ stderr = <<>> \/ Len(fileOps) >= 1

C1_Witness ==
    /\ Resolved /\ GotCatalog(1) /\ pc = "read"
    /\ LET cat == CatalogOf(1) IN
         /\ Len(cat) = 2
         /\ Usable(cat, cfg.actorName) = {1, 2}
         /\ cat[1].Styles = <<[Name |-> "Happy", ID |-> 1], [Name |-> "Normal", ID |-> 0]>>
         /\ cat[2].Styles[1].ID = 0
         /\ speakerID = 1

\* C2: whenever the catalog holds no entry named as the requested actor, the
\* resolve step fails with SpeakerNotFound and the run ends with exit code 1
\* having read no file and called neither the query nor the synthesis endpoint.
C2_UnknownSpeakerAborts ==
    (Resolved /\ GotCatalog(1) /\ Named(CatalogOf(1), cfg.actorName) = {}) =>
        /\ pc = "exit"
        /\ exitCode = 1
        /\ Len(stderr) = 1 /\ stderr[1].kind = "SpeakerNotFound"
        /\ Len(calls) = 1
        /\ fileOps = <<>>
        /\ stdout = <<>>

C2_Witness ==
    /\ Resolved /\ GotCatalog(1) /\ pc = "exit"
    /\ cfg.actorName = "Zundamon"
    /\ LET cat == CatalogOf(1) IN
         /\ Len(cat) = 2
         /\ \A i \in DOMAIN cat : cat[i].Name = "zundamon" /\ cat[i].Styles # <<>>

\* C3 as stated: if the first entry with the requested name has no styles, the
\* resolve step fails with SpeakerNotFound, whatever follows it in the catalog.
C3_FirstMatchEmptyFails ==
    (Resolved /\ GotCatalog(1)) =>
        LET cat == CatalogOf(1)
            M == Named(cat, cfg.actorName)
        IN (M # {} /\ cat[Min(M)].Styles = <<>>) =>
             ResolveFailed /\ Len(stderr) = 1 /\ stderr[1].kind = "SpeakerNotFound"

\* C3 amended: an entry with the requested name and no styles is skipped; the
\* resolve step fails with SpeakerNotFound when every entry with that name has
\* no styles, and otherwise succeeds with the first style of the earliest
\* entry of that name that has one.
C3_EmptyMatchSkipped ==
    (Resolved /\ GotCatalog(1)) =>
        LET cat == CatalogOf(1)
            M == Named(cat, cfg.actorName)
            Q == Usable(cat, cfg.actorName)
        IN (M # {} /\ cat[Min(M)].Styles = <<>>) =>
             IF Q = {}
             THEN ResolveFailed /\ Len(stderr) = 1 /\ stderr[1].kind = "SpeakerNotFound"
             ELSE ResolvePassed /\ speakerID = cat[Min(Q)].Styles[1].ID

C3_Witness ==
    /\ Resolved /\ GotCatalog(1) /\ ResolveFailed
    /\ LET cat == CatalogOf(1) IN
         /\ Len(cat) = 2
         /\ Named(cat, cfg.actorName) = {1, 2}
         /\ Usable(cat, cfg.actorName) = {}

\* C4: every query submitted to synthesis carries the four scale flags as they
\* were parsed (1.0, 0.0, 1.0, 1.0 when left at their defaults), whatever the
\* engine's query said, and each silence length is the flag's value unless the
\* flag is -1.0, in which case it is the value the engine's query gave; the
\* two silence lengths are decided separately.
C4_SubmittedScalars ==
    \A k \in SynthesisCalls :
        LET b == calls[k].req.body IN
        /\ b.speedScale = cfg.speed
        /\ b.pitchScale = cfg.pitch
        /\ b.intonationScale = cfg.intonation
        /\ b.volumeScale = cfg.volume
        /\ (<<cfg.speed, cfg.pitch, cfg.intonation, cfg.volume>>
              = <<DefaultFlags.speed, DefaultFlags.pitch, DefaultFlags.intonation,
                  DefaultFlags.volume>>)
             => <<b.speedScale, b.pitchScale, b.intonationScale, b.volumeScale>>
                  = <<"1.0", "0.0", "1.0", "1.0">>
        /\ b.prePhonemeLength = IF cfg.prePhoneme = "-1.0"
                                THEN queryReceived.PrePhonemeLength ELSE cfg.prePhoneme
        /\ b.postPhonemeLength = IF cfg.postPhoneme = "-1.0"
                                 THEN queryReceived.PostPhonemeLength ELSE cfg.postPhoneme

C4_Witness ==
    \E k \in SynthesisCalls :
        /\ cfg.prePhoneme = "-1.0" /\ cfg.postPhoneme = "0.5"
        /\ queryReceived.PrePhonemeLength = "0.1"
        /\ queryReceived.PostPhonemeLength = "0.1"
        /\ queryReceived.SpeedScale # cfg.speed
        /\ queryReceived.PitchScale # cfg.pitch
        /\ calls[k].req.body.prePhonemeLength = "0.1"
        /\ calls[k].req.body.postPhonemeLength = "0.5"

\* C5: the accent phrases, the sampling rate, the stereo flag and the kana of
\* the query are never changed between their receipt from the engine and the
\* submission to synthesis.
C5_OpaquePartKept ==
    /\ query.AccentPhrases = queryReceived.AccentPhrases
    /\ query.OutputSamplingRate = queryReceived.OutputSamplingRate
    /\ query.OutputStereo = queryReceived.OutputStereo
    /\ query.Kana = queryReceived.Kana
    /\ \A k \in SynthesisCalls :
         LET b == calls[k].req.body IN
         /\ b.accent_phrases = queryReceived.AccentPhrases
         /\ b.outputSamplingRate = queryReceived.OutputSamplingRate
         /\ b.outputStereo = queryReceived.OutputStereo
         /\ b.kana = [null |-> FALSE, s |-> queryReceived.Kana]

C5_Witness ==
    \E k \in SynthesisCalls :
        LET b == calls[k].req.body IN
        /\ b.accent_phrases = [null |-> FALSE, items |-> <<"phrase">>]
        /\ b.outputSamplingRate = 48000
        /\ b.outputStereo
        /\ b.kana.s = "konnichiwa"
        /\ cfg.speed # "1.0" /\ cfg.prePhoneme = "0.5"

\* C6: a response with a status other than 200 ends the run at once with exit
\* code 1 and a ProtocolError carrying that status (and, for the query and the
\* synthesis endpoint, the response body); nothing is taken from its body.
C6_ProtocolErrorAborts ==
    \A k \in DOMAIN calls :
        (calls[k].resp.conn /\ calls[k].resp.status # 200) =>
            /\ k = Len(calls)
            /\ pc = "exit" /\ exitCode = 1
            /\ Len(stderr) = 1
            /\ stderr[1].kind = "ProtocolError"
            /\ stderr[1].status = calls[k].resp.status
            /\ calls[k].req.path \in {"/audio_query", "/synthesis"}
                 => stderr[1].body = calls[k].resp.body
            /\ calls[k].req.path = "/speakers" => stdout = <<>> /\ fileOps = <<>>
            /\ calls[k].req.path = "/audio_query"
                 => query = ZeroQuery /\ queryReceived = ZeroQuery
            /\ calls[k].req.path = "/synthesis"
                 => wavData = <<>> /\ \A j \in DOMAIN fileOps : fileOps[j].op # "write"

C6_Witness ==
    /\ pc = "exit"
    /\ Len(calls) = 2
    /\ calls[2].req.path = "/audio_query"
    /\ calls[2].resp.status = 404
    /\ calls[2].resp.body.kind = "query"

\* the listing of a catalog: a line per speaker, each followed by a line per
\* style of that speaker
RECURSIVE ExpectedListing(_)
ExpectedListing(cat) ==
    IF cat = <<>> THEN <<>>
    ELSE LET n == Len(cat)
             sp == cat[n]
         IN ExpectedListing(SubSeq(cat, 1, n - 1))
            \o << <<"speaker", sp.Name>> >>
            \o [j \in 1..Len(sp.Styles) |-> <<"style", sp.Styles[j].Name, sp.Styles[j].ID>>]

\* C7: with -list-actors the run makes the catalog request and nothing else,
\* whatever the other flags are: no file is read or written and no other
\* endpoint is called; it ends with exit code 0 and the full listing in catalog
\* order when the fetch succeeded, and with exit code 1 when it failed.
C7_ListOnly ==
    cfg.showActors =>
        /\ pc \in {"start", "exit"}
        /\ fileOps = <<>>
        /\ outFile \in {Absent, OldFile}
        /\ Len(calls) <= 1
        /\ \A k \in DOMAIN calls :
             calls[k].req.method = "GET" /\ calls[k].req.path = "/speakers"
        /\ pc = "exit" =>
             /\ Len(calls) = 1
             /\ IF GotCatalog(1)
                THEN /\ exitCode = 0
                     /\ stdout = << <<"header">> >> \o ExpectedListing(CatalogOf(1))
                                 \o << <<"footer">>, <<"hint">> >>
                     /\ stderr = <<>>
                ELSE /\ exitCode = 1
                     /\ stdout = <<>>
                     /\ Len(stderr) = 1

C7_Witness ==
    /\ cfg.showActors /\ pc = "exit" /\ exitCode = 0
    /\ cfg.inputFile = "" /\ cfg.outputFile = ""
    /\ GotCatalog(1)
    /\ Len(CatalogOf(1)) = 2
    /\ Len(CatalogOf(1)[1].Styles) = 2
    /\ Len(stdout) = 8

\* C8: in synthesis mode with the input or the output path missing, the run
\* ends with the usage text and exit code 1, with no request to the engine and
\* no file read or written.
C8_MissingPathUsage ==
    (SynthesisMode /\ (cfg.inputFile = "" \/ cfg.outputFile = "")) =>
        /\ calls = <<>>
        /\ fileOps = <<>>
        /\ outFile \in {Absent, OldFile}
        /\ stdout = <<>>
        /\ \/ pc = "start" /\ exitCode = -1 /\ stderr = <<>> /\ ENABLED Usage
           \/ pc = "exit" /\ exitCode = 1 /\ Len(stderr) = 1 /\ stderr[1].kind = "Usage"

C8_Witness ==
    /\ SynthesisMode
    /\ cfg.inputFile = "in.txt" /\ cfg.outputFile = ""
    /\ pc = "exit" /\ exitCode = 1

\* C9: a synthesis run ends with exit code 0 exactly when the output file was
\* written in full, and the file then holds exactly the bytes of the synthesis
\* response, whatever it held before.
C9_OutputIsSynthesisBody ==
    SynthesisMode =>
        /\ (pc = "exit" /\ exitCode = 0) =>
             /\ Len(calls) = 3
             /\ calls[3].req.path = "/synthesis"
             /\ calls[3].resp.conn /\ calls[3].resp.status = 200
             /\ outFile = [exists |-> TRUE, data |-> calls[3].resp.body.val]
             /\ Len(fileOps) = 2
             /\ fileOps[2] = [op |-> "write", path |-> cfg.outputFile, ok |-> TRUE]
        /\ \A j \in DOMAIN fileOps :
             (fileOps[j].op = "write" /\ fileOps[j].ok) =>
                 /\ pc = "exit" /\ exitCode = 0
                 /\ outFile = [exists |-> TRUE, data |-> calls[3].resp.body.val]

C9_Witness ==
    /\ SynthesisMode /\ pc = "exit" /\ exitCode = 0
    /\ outFile.data = <<82, 73>>
    /\ cfg.prePhoneme = "0.5"

Failed(k) ==
    \/ ~calls[k].resp.conn
    \/ calls[k].resp.status # 200
    \/ k = 1 /\ (~GotCatalog(1) \/ Usable(CatalogOf(1), cfg.actorName) = {})
    \/ k = 2 /\ calls[k].resp.body.kind \notin {"query", "null"}
    \/ k = 3 /\ calls[k].resp.body.kind = "broken"

\* C10: a synthesis run performs resolve, read, query, synthesis, write in
\* that order, each at most once and each only after all earlier steps
\* succeeded; a failed step is the last one and leaves exit code 1; the file is
\* written only after all four earlier steps succeeded; the query and the
\* synthesis request carry the identifier the resolve step returned.
C10_LinearPipeline ==
    SynthesisMode =>
        /\ Len(calls) <= 3 /\ Len(fileOps) <= 2
        /\ Len(calls) >= 1 => calls[1].req.path = "/speakers"
        /\ Len(calls) >= 2 => calls[2].req.path = "/audio_query"
        /\ Len(calls) >= 3 => calls[3].req.path = "/synthesis"
        /\ Len(fileOps) >= 1 => fileOps[1].op = "read" /\ fileOps[1].path = cfg.inputFile
        /\ Len(fileOps) >= 2 => fileOps[2].op = "write" /\ fileOps[2].path = cfg.outputFile
        \* each step only after the earlier ones succeeded
        /\ Len(fileOps) >= 1 => Len(calls) >= 1 /\ ~Failed(1)
        /\ Len(calls) >= 2 => Len(fileOps) >= 1 /\ fileOps[1].ok
        /\ Len(calls) >= 3 => ~Failed(2)
        /\ Len(fileOps) >= 2 => Len(calls) = 3 /\ ~Failed(3)
        \* a failed step is the last step and ends the run with exit code 1
        /\ \A k \in DOMAIN calls :
             Failed(k) => /\ k = Len(calls) /\ pc = "exit" /\ exitCode = 1
                          /\ Len(fileOps) = (IF k = 1 THEN 0 ELSE 1)
        /\ \A j \in DOMAIN fileOps :
             ~fileOps[j].ok => /\ j = Len(fileOps) /\ pc = "exit" /\ exitCode = 1
                               /\ Len(calls) = (IF j = 1 THEN 1 ELSE 3)
        /\ (Len(calls) >= 1 /\ ~calls[1].resp.conn) =>
             fileOps = <<>> /\ outFile \in {Absent, OldFile} /\ exitCode = 1
        \* the identifier sent is the one resolved
        /\ \A k \in DOMAIN calls :
             k >= 2 => calls[k].req.speaker
                         = CatalogOf(1)[Min(Usable(CatalogOf(1), cfg.actorName))].Styles[1].ID

C10_Witness ==
    /\ SynthesisMode /\ pc = "exit" /\ exitCode = 1
    /\ Len(calls) = 3
    /\ ~calls[3].resp.conn
    /\ fileOps = <<[op |-> "read", path |-> "in.txt", ok |-> TRUE]>>
====
